---- MODULE Spec2Model ----
(***************************************************************************)
(* GhostGallery front end: the FHEVM runtime lifecycle.                    *)
(*                                                                         *)
(*   createFhevmInstance  fhevm/internal/fhevm.ts:64-133                   *)
(*   useFhevm             fhevm/internal/fhevm.ts:137-198                  *)
(*   RelayerSDKLoader     fhevm/internal/RelayerSDKLoader.ts               *)
(*   FhevmDecryptionSignature  fhevm/internal/fhevm.ts:205-261             *)
(*   decryptLikes / decryptAll  hooks (part_003), app/rank/page.tsx        *)
(*   GhostGallery         ghostgallery-hardhat/contracts/GhostGallery.sol  *)
(*                                                                         *)
(* One useFhevm controller is modelled together with the process-wide      *)
(* window.relayerSDK slot and every createFhevmInstance call in flight.    *)
(* Each await of createFhevmInstance is one action; the code that runs     *)
(* synchronously after the await (up to the next await, or up to the       *)
(* try/catch/finally of initAsync when the call settles) belongs to it.    *)
(***************************************************************************)
EXTENDS Integers, FiniteSets, Sequences, TLC

\* ---------------------------------------------------------------- bounds
\* createFhevmInstance calls that can be in flight at the same time
MaxInFlight == 2

\* artworks uploaded
MaxArtworks == 2
\* likeArtwork / voteArtwork transactions that succeed
MaxTx == 5
\* like(id) calls of useGallery that pass its guard
MaxLikes == 3

\* ------------------------------------------------------------- constants
NoProvider == "undefined"
Providers == {"A", "B"}
NoChain == 0
HardhatChain == 31337
SepoliaChain == 11155111
Chains == {HardhatChain, SepoliaChain}
\* values of the chainId parameter (the effect only compares it)
ChainProps == {NoChain, HardhatChain}
\* key set of the initialMockChains map the pages pass (app/page.tsx:45)
PageMockChains == {HardhatChain}

ErrorKinds == {"chainId", "load", "typeError", "initThrow", "initFalsy", "create", "abort"}
\* values of window.relayerSDK: key absent, key present with a falsy value,
\* a truthy object that is not the engine, the engine
WindowValues == {"absent", "falsy", "malformed", "sdk"}

\* instance is "undefined", or the way the session was built: "mock", "sdk";
\* error is "undefined", or the failure
NoInstance == "undefined"
NoError == "undefined"

VARIABLES
    enabled,          \* useFhevm parameter
    provider,         \* useFhevm parameter
    chainId,          \* useFhevm parameter
    instance,         \* React state
    status,           \* React state: FhevmGoState
    error,            \* React state
    initializingRef,  \* initializingRef.current
    relayerSDK,       \* window.relayerSDK
    injected,         \* a script element for SDK_CDN_URL has been appended to document.head
    initOk,           \* initSDK has returned a truthy value
    calls,            \* the createFhevmInstance calls in flight, oldest first
    orphans,          \* how many of them (the oldest) were in flight when refresh() last ran
    rerequested,      \* the effect has run again, enabled, for the provider of the call
                      \* that holds initializingRef, and returned at line 158-161
    lastSettled,      \* the outcome of the call that settled last; refresh() and a new
                      \* activation of the hook forget it
    resolveArgs,      \* resolve(): the chain of providerOrUrl and the mockChains argument
    resolveResult,    \* resolve(): <<>> while it runs, then <<its ResolveResult>>
    now,              \* Date.now(): whole seconds s and milliseconds ms
    dpc,              \* decryptLikes / decryptAll: the await it is at
    rows,             \* the handles it was asked to decrypt
    keypair,          \* the public key of instance.generateKeypair()
    userAddress,      \* FhevmDecryptionSignature.new: signer.getAddress()
    eip712,           \* FhevmDecryptionSignature.new: <<>> or <<what createEIP712 built>>
    newReturned,      \* how the last FhevmDecryptionSignature.new ended
    issued,           \* <<>> or <<the last FhevmDecryptionSignature created>>
    request,          \* <<>> or <<the userDecrypt request of this decryption>>
    valid,            \* <<>> or <<what isValid() of the issued signature returned now>>
    nextArtworkId,    \* GhostGallery.nextArtworkId
    artworkIds,       \* GhostGallery._artworkIds
    artworks,         \* GhostGallery._artworks, for the ids that have an artist
    votes,            \* GhostGallery._votesByArtworkAndCategory, for the keys written
    votesInitialized, \* GhostGallery._votesInitialized: the keys that are true
    acl,              \* the accounts with access to a counter's current handle
    done,             \* how many likeArtwork / voteArtwork calls succeeded, per counter
    lastTx,           \* how the last transaction ended
    msgSender,        \* msg.sender of the last transaction
    likedItems,       \* useGallery: the ids marked as liked
    likeCalls,        \* the like(id) calls in flight, oldest first: the id and the await
    sentLikes,        \* how many likeArtwork transactions the hook has sent, per id
    busy              \* useGallery: the busy flag as like() writes it

ctl == <<enabled, provider, chainId, instance, status, error, initializingRef, rerequested>>
glob == <<relayerSDK, injected, initOk>>
\* the FHEVM runtime: the hook, the window and the calls in flight
runtime == <<enabled, provider, chainId, instance, status, error, initializingRef,
             relayerSDK, injected, initOk, calls, orphans, rerequested, lastSettled>>
\* a resolve() call looked at on its own
resolving == <<resolveArgs, resolveResult>>
\* a decryption: the caller's locals, the signature class, the clock
decrypting == <<now, dpc, rows, keypair, userAddress, eip712, newReturned, issued,
                request, valid>>
\* what the runtime's operations leave alone
\* the GhostGallery contract
ledger == <<nextArtworkId, artworkIds, artworks, votes, votesInitialized, acl,
            done, lastTx, msgSender>>
liking == <<likedItems, likeCalls, sentLikes, busy>>
rest == <<resolving, decrypting, ledger, liking>>
vars == <<runtime, rest>>

\* a call in flight (NoCall: the frame before its first await): where it
\* waits (pc), who made it, for which provider, resolve's classification,
\* whether its load() appended a script, its signal, and the reply to its
\* last probe of the local node ("failed": the probe sent it to line 103),
\* kept until the await after the probe is answered
NoCall == [pc |-> "none", owner |-> "none", prov |-> NoProvider,
           isMock |-> FALSE, script |-> FALSE, aborted |-> FALSE, reply |-> "none"]

\* mockChains is <<>> (undefined) or <<the key set of the map>>
NoResolveArgs == [chain |-> NoChain, mockChains |-> <<>>]

NoKey == "none"
NoUser == "none"

NoOutcome == [owner |-> "none", aborted |-> FALSE, res |-> "none", err |-> "none"]

InFlight == DOMAIN calls
HookInFlight == {a \in InFlight : calls[a].owner = "hook"}

\* the calls without the a-th
RemoveAt(cs, a) == [i \in 1..(Len(cs) - 1) |-> IF i < a THEN cs[i] ELSE cs[i + 1]]

\* ---------------------------------------------------------------- helpers

\* RelayerSDKLoader.ts:6-10
isFhevmWindowType(w) == w \in {"malformed", "sdk"}

\* RelayerSDKLoader.ts:20  ("relayerSDK" in window)
KeyInWindow(w) == w # "absent"

\* a merge that leaves out the built-in entry
MergedMockChains_m(mockChains) == mockChains

\* fhevm.ts:56: the key set of { 31337: ..., ...(mockChains ?? {}) }
MergedMockChains(mockChains) == {HardhatChain} \cup mockChains

\* fhevm.ts:56: mockChains ?? {}
OrEmpty(mockChains) == IF mockChains = <<>> THEN {} ELSE mockChains[1]

\* fhevm.ts:53-62
resolve(chain, mockChains) ==
    [isMock |-> chain \in MergedMockChains(mockChains), chainId |-> chain]

\* fhevm.ts:72
throwIfAborted(c) == c.aborted

\* a test that only looks at the type of the reply
IdentifiesHardhat_m(version) == version # "throw"

\* fhevm.ts:85: typeof version === "string" && version.toLowerCase().includes("hardhat")
IdentifiesHardhat(version) == version = "hardhat"

\* fhevm.ts:90: metadata && ACLAddress && InputVerifierAddress && KMSVerifierAddress
HasAddresses(metadata) == metadata = "complete"

\* the guard without the initializingRef test
EffectSkips_m(e, p, init) == ~e \/ p = NoProvider

\* fhevm.ts:158: the effect returns without starting anything
EffectSkips(e, p, init) == ~e \/ p = NoProvider \/ init

\* fhevm.ts:183-184: the try branch of initAsync
ThenInstance(c, via) == via

ThenStatus(st) == "ready"

\* a catch branch that does not store the failure
CatchError_m(c, kind) == NoError

\* a catch branch that returns before setStatus
CatchStatus_m(st, kind) == st

\* fhevm.ts:185-188: the catch branch of initAsync
CatchError(c, kind) == kind

CatchStatus(st, kind) == "error"

\* fhevm.ts:150-155, 164-168: what refresh() and the effect leave in instance
RefreshInstance(inst) == NoInstance

EffectInstance(inst) == inst

\* nothing but the runtime is in use
ResolveIdle ==
    /\ resolveArgs = NoResolveArgs
    /\ resolveResult = <<>>

\* no decryption has been asked for; the clock is at its first instant
DecryptIdle ==
    /\ now = [s |-> 0, ms |-> 0]
    /\ dpc = "idle"
    /\ rows = {}
    /\ keypair = NoKey
    /\ userAddress = NoUser
    /\ eip712 = <<>>
    /\ newReturned = "none"
    /\ issued = <<>>
    /\ request = <<>>
    /\ valid = <<>>

\* address(0)
ZeroAddress == "0x0"

\* GhostGallery.sol:31-39: the contract as deployed
LedgerInit ==
    /\ nextArtworkId = 1
    /\ artworkIds = <<>>
    /\ artworks = <<>>
    /\ votes = <<>>
    /\ votesInitialized = {}
    /\ acl = <<>>
    /\ done = <<>>
    /\ lastTx = "none"
    /\ msgSender = ZeroAddress

\* part_003 lines 31-32: the hook as mounted
LikeIdle ==
    /\ likedItems = {}
    /\ likeCalls = <<>>
    /\ sentLikes = <<>>
    /\ busy = FALSE

RestInit == ResolveIdle /\ DecryptIdle /\ LedgerInit /\ LikeIdle

Init ==
    /\ enabled = TRUE
    /\ provider = NoProvider
    /\ chainId = NoChain
    /\ instance = NoInstance
    /\ status = "idle"
    /\ error = NoError
    /\ initializingRef = FALSE
    /\ relayerSDK = "absent"
    /\ injected = FALSE
    /\ initOk = FALSE
    /\ calls = <<>>
    /\ orphans = 0
    /\ rerequested = FALSE
    /\ lastSettled = NoOutcome
    /\ RestInit

\* ------------------------------------------------- settling / continuing

\* the call goes on to its next await; the controller is not touched
Advance(a, c) ==
    /\ calls' = [calls EXCEPT ![a] = c]
    /\ UNCHANGED <<ctl, orphans, lastSettled, rest>>

\* fhevm.ts:170-192: the call returns (res = "mock" or "sdk") or throws
\* (res = "rejected", err the failure); for a call made by the hook the
\* try / catch / finally of initAsync runs in the same turn
Settle(a, c, res, err) ==
    /\ calls' = RemoveAt(calls, a)
    /\ orphans' = IF a <= orphans THEN orphans - 1 ELSE orphans
    /\ lastSettled' = [owner |-> c.owner, aborted |-> c.aborted, res |-> res, err |-> err]
    /\ UNCHANGED rest
    /\ IF c.owner = "hook"
       THEN /\ initializingRef' = FALSE
            /\ rerequested' = FALSE
            /\ IF res # "rejected"
               THEN /\ instance' = ThenInstance(c, res)
                    /\ status' = ThenStatus(status)
                    /\ UNCHANGED error
               ELSE /\ error' = CatchError(c, err)
                    /\ status' = CatchStatus(status, err)
                    /\ UNCHANGED instance
            /\ UNCHANGED <<enabled, provider, chainId>>
       ELSE UNCHANGED ctl

\* fhevm.ts:118: window.relayerSDK.initSDK() is invoked with the window slot
\* holding w; anything but the engine makes the member access throw
InvokeInit(a, c, w) ==
    IF w = "sdk"
    THEN /\ UNCHANGED initOk
         /\ Advance(a, [c EXCEPT !.pc = "init", !.isMock = FALSE, !.script = FALSE])
    ELSE /\ UNCHANGED initOk
         /\ Settle(a, c, "rejected", "typeError")

\* RelayerSDKLoader.ts:20-30: a script element is appended unless the key is there
Injects(w) == ~KeyInWindow(w)

\* fhevm.ts:105-118 up to the next await: the loader's promise
\* (RelayerSDKLoader.ts:18-32) or, when the slot is truthy, initSDK
EnterRemote(a, c) ==
    IF ~isFhevmWindowType(relayerSDK)
    THEN /\ injected' = (injected \/ Injects(relayerSDK))
         /\ Advance(a, [c EXCEPT !.pc = "load", !.isMock = FALSE, !.script = Injects(relayerSDK)])
         /\ UNCHANGED <<relayerSDK, initOk>>
    ELSE /\ InvokeInit(a, c, relayerSDK)
         /\ UNCHANGED <<relayerSDK, injected>>

\* a probe whose failure is thrown to the caller
FallThrough_m(a, c) ==
    /\ Settle(a, c, "rejected", "probe")
    /\ UNCHANGED glob

\* fhevm.ts:85-103: a probe of the local node did not pass (its reply fails
\* the test, or it threw and the catch at line 98 swallowed it); execution
\* continues at line 103
FallThrough(a, c) == EnterRemote(a, [c EXCEPT !.reply = "failed"])

\* ------------------------------------------------ createFhevmInstance

\* the chain a provider is connected to: A is the local Hardhat node, B a
\* wallet on Sepolia
ChainOf(p) == IF p = "A" THEN HardhatChain ELSE SepoliaChain

\* fhevm.ts:76 (resolve, 53-62; getChainId, 20-27): eth_chainId fails or
\* answers with the provider's chain
ResolveDone(a) ==
    /\ calls[a].pc = "resolve"
    /\ \E out \in {NoChain, ChainOf(calls[a].prov)} :
          IF out = NoChain
          THEN /\ Settle(a, calls[a], "rejected", "chainId")
               /\ UNCHANGED glob
          ELSE LET r == resolve(out, PageMockChains)
                   c == [calls[a] EXCEPT !.isMock = r.isMock]
               IN  IF r.isMock
                   THEN /\ Advance(a, [c EXCEPT !.pc = "version"])
                        /\ UNCHANGED glob
                   ELSE EnterRemote(a, c)

\* fhevm.ts:82-85 (getWeb3Client, 29-37)
VersionDone(a) ==
    /\ calls[a].pc = "version"
    /\ \E out \in {"throw", "hardhat", "other"} :
          IF IdentifiesHardhat(out)
          THEN /\ Advance(a, [calls[a] EXCEPT !.pc = "metadata", !.reply = out])
               /\ UNCHANGED glob
          ELSE FallThrough(a, calls[a])

\* fhevm.ts:87-90 (getFHEVMRelayerMetadata, 39-47)
MetadataDone(a) ==
    /\ calls[a].pc = "metadata"
    /\ \E out \in {"throw", "complete", "incomplete"} :
          IF HasAddresses(out)
          THEN /\ Advance(a, [calls[a] EXCEPT !.pc = "mockCreate", !.reply = out])
               /\ UNCHANGED glob
          ELSE FallThrough(a, calls[a])

\* fhevm.ts:92-100
MockCreateDone(a) ==
    /\ calls[a].pc = "mockCreate"
    /\ \E out \in {"throw", "instance"} :
          IF out = "instance"
          THEN /\ Settle(a, calls[a], "mock", "none")
               /\ UNCHANGED glob
          ELSE FallThrough(a, calls[a])

\* fhevm.ts:109-118 (RelayerSDKLoader.ts:28-29: onload / onerror)
LoadDone(a) ==
    /\ calls[a].pc = "load"
    /\ \E out \in (IF calls[a].script
                   THEN {"error", "installed", "malformed", "nothing"}
                   ELSE {"resolved"}) :
          LET w == CASE out = "installed" -> "sdk"
                     [] out = "malformed" -> "malformed"
                     [] OTHER -> relayerSDK
          IN  /\ relayerSDK' = w
              /\ UNCHANGED injected
              /\ IF out = "error"
                 THEN /\ Settle(a, calls[a], "rejected", "load")
                      /\ UNCHANGED initOk
                 ELSE IF throwIfAborted(calls[a])
                 THEN /\ Settle(a, calls[a], "rejected", "abort")
                      /\ UNCHANGED initOk
                 ELSE InvokeInit(a, [calls[a] EXCEPT !.reply = "none"], w)

\* an initSDK whose falsy answer is not looked at
InitPassed_m(ok) == ok # "throw"

\* fhevm.ts:119: if (!ok) throw
InitPassed(ok) == ok = "truthy"

\* fhevm.ts:118-129
InitDone(a) ==
    /\ calls[a].pc = "init"
    /\ \E out \in {"throw", "falsy", "truthy"} :
          /\ initOk' = (initOk \/ out = "truthy")
          /\ UNCHANGED <<relayerSDK, injected>>
          /\ CASE out = "throw" -> Settle(a, calls[a], "rejected", "initThrow")
               [] out # "throw" /\ ~InitPassed(out) ->
                    Settle(a, calls[a], "rejected", "initFalsy")
               [] OTHER ->
                    IF throwIfAborted(calls[a])
                    THEN Settle(a, calls[a], "rejected", "abort")
                    ELSE IF relayerSDK # "sdk"
                    THEN Settle(a, calls[a], "rejected", "typeError")
                    ELSE Advance(a, [calls[a] EXCEPT !.pc = "create", !.script = FALSE,
                                                     !.reply = "none"])

\* fhevm.ts:129-132
CreateDone(a) ==
    /\ calls[a].pc = "create"
    /\ \E out \in {"reject", "resolve"} :
          IF out = "reject"
          THEN Settle(a, calls[a], "rejected", "create")
          ELSE IF throwIfAborted(calls[a])
          THEN Settle(a, calls[a], "rejected", "abort")
          ELSE Settle(a, calls[a], "sdk", "none")
    /\ UNCHANGED glob

\* one await of one call is answered
Step ==
    \E a \in InFlight :
        \/ ResolveDone(a)
        \/ VersionDone(a)
        \/ MetadataDone(a)
        \/ MockCreateDone(a)
        \/ LoadDone(a)
        \/ InitDone(a)
        \/ CreateDone(a)

\* fhevm.ts:64-76: the call runs up to the chain id query
NewCall(owner, p) ==
    [NoCall EXCEPT !.pc = "resolve", !.owner = owner, !.prov = p]

\* ------------------------------------------------------------ useFhevm

\* the call that holds initializingRef: the newest call of the hook
Holder(cs) ==
    LET hs == {a \in DOMAIN cs : cs[a].owner = "hook"}
    IN  CHOOSE a \in hs : \A b \in hs : b <= a

\* fhevm.ts:158-161: the effect runs enabled for provider p and returns
\* because initializingRef is set by a call made for p
Rerequests(cs, e, p, init) ==
    /\ e /\ init
    /\ \E a \in DOMAIN cs : cs[a].owner = "hook"
    /\ cs[Holder(cs)].prov = p

\* fhevm.ts:157-195: the caller re-renders with other enabled / provider /
\* chainId and the effect runs
ChangeInputs(e, p, c) ==
    /\ <<e, p, c>> # <<enabled, provider, chainId>>
    /\ enabled' = e
    /\ provider' = p
    /\ chainId' = c
    /\ IF EffectSkips(e, p, initializingRef)
       THEN /\ rerequested' = (rerequested \/ Rerequests(calls, e, p, initializingRef))
            /\ UNCHANGED <<instance, status, error, initializingRef, calls, lastSettled>>
       ELSE /\ Len(calls) < MaxInFlight
            /\ initializingRef' = TRUE
            /\ rerequested' = FALSE
            /\ status' = "loading"
            /\ error' = NoError
            /\ instance' = EffectInstance(instance)
            /\ calls' = Append(calls, NewCall("hook", p))
            /\ lastSettled' = NoOutcome
    /\ UNCHANGED <<glob, orphans, rest>>

\* fhevm.ts:150-155
Refresh ==
    /\ initializingRef' = FALSE
    /\ instance' = RefreshInstance(instance)
    /\ error' = NoError
    /\ status' = "idle"
    /\ rerequested' = FALSE
    /\ orphans' = Len(calls)
    /\ lastSettled' = NoOutcome
    /\ UNCHANGED <<enabled, provider, chainId, glob, calls, rest>>

Change ==
    \E e \in BOOLEAN, p \in {NoProvider} \cup Providers, c \in ChainProps :
        ChangeInputs(e, p, c)

Next == Change \/ Refresh \/ Step

Spec == Init /\ [][Next]_vars

\* every awaited external call is eventually answered
FairSpec == Spec /\ WF_vars(Step)

\* ------------------------------- createFhevmInstance called on its own

\* fhevm.ts:64-70: a caller other than the hook, holding the AbortController
DirectCall(p) ==
    /\ Len(calls) < MaxInFlight
    /\ calls' = Append(calls, NewCall("direct", p))
    /\ UNCHANGED <<ctl, glob, orphans, lastSettled, rest>>

\* the caller aborts the signal of a call that has not returned
Abort(a) ==
    /\ calls[a].owner = "direct"
    /\ ~calls[a].aborted
    /\ calls' = [calls EXCEPT ![a].aborted = TRUE]
    /\ UNCHANGED <<ctl, glob, orphans, lastSettled, rest>>

Call == \E p \in Providers : DirectCall(p)

Cancel == \E a \in InFlight : Abort(a)

NextCreate == Call \/ Cancel \/ Step

\* the page may already hold anything in window.relayerSDK
InitCreate ==
    /\ enabled = TRUE
    /\ provider = NoProvider
    /\ chainId = NoChain
    /\ instance = NoInstance
    /\ status = "idle"
    /\ error = NoError
    /\ initializingRef = FALSE
    /\ relayerSDK \in WindowValues
    /\ injected = FALSE
    /\ initOk = FALSE
    /\ calls = <<>>
    /\ orphans = 0
    /\ rerequested = FALSE
    /\ lastSettled = NoOutcome
    /\ RestInit

SpecCreate == InitCreate /\ [][NextCreate]_vars

\* ------------------------------------------------ resolve on its own

\* chain ids a provider can answer with, and keys a mockChains map can have
ResolveChains == Chains \cup {1, 1337}

MockChainsArgs == {<<>>} \cup {<<ks>> : ks \in SUBSET ResolveChains}

\* fhevm.ts:53-54: resolve is called and awaits the chain id
ResolveCall(chain, mockChains) ==
    /\ resolveArgs' = [chain |-> chain, mockChains |-> mockChains]
    /\ resolveResult' = <<>>
    /\ UNCHANGED <<runtime, decrypting, ledger, liking>>

\* fhevm.ts:55-61
ResolveReturn ==
    /\ resolveArgs # NoResolveArgs
    /\ resolveResult = <<>>
    /\ resolveResult' = <<resolve(resolveArgs.chain, OrEmpty(resolveArgs.mockChains))>>
    /\ UNCHANGED <<runtime, resolveArgs, decrypting, ledger, liking>>

ResolveAny == \E chain \in ResolveChains, mockChains \in MockChainsArgs :
                 ResolveCall(chain, mockChains)

NextResolve == ResolveAny \/ ResolveReturn

SpecResolve == Init /\ [][NextResolve]_vars

\* ------------------------------------------- decryption signatures
\* FhevmDecryptionSignature (fhevm.ts:205-261) and its callers
\* useGallery.decryptLikes (src/unnamed/part_003:113-134) and
\* RankPage.decryptAll (app/rank/page.tsx:93-129)

\* fhevm.ts:249
durationDays == 365

\* fhevm.ts:236: 24 * 60 * 60
SecondsPerDay == 24 * 60 * 60

\* the instants the clock is looked at: around the creation of a signature
\* and around the end of its window
ClockSeconds == {0, 1, durationDays * SecondsPerDay - 1, durationDays * SecondsPerDay,
                 durationDays * SecondsPerDay + 1}

Instants == [s : ClockSeconds, ms : {0, 999}]

Later(t, u) == t.s < u.s \/ (t.s = u.s /\ t.ms < u.ms)

Keys == {"k1", "k2"}
Users == {"u1", "u2"}
ZeroHandle == "0x00"
Handles == {ZeroHandle, "h1"}
NoContract == "undefined"

\* abi/GhostGalleryAddresses.ts, part_003 lines 37-41, rank/page.tsx:46
ContractAt(chain) ==
    CASE chain = HardhatChain -> "0xe7f1"
      [] chain = SepoliaChain -> "0x332e"
      [] OTHER -> NoContract

\* fhevm.ts:248: Math.floor(Date.now() / 1000)
FloorSeconds(t) == t.s

\* a comparison that lets the last instant of the window through
isValid_m(g, t) ==
    \/ t.s < g.startTimestamp + g.durationDays * SecondsPerDay
    \/ t.s = g.startTimestamp + g.durationDays * SecondsPerDay /\ t.ms = 0

\* fhevm.ts:235-237: Date.now() / 1000 < startTimestamp + durationDays * 24 * 60 * 60;
\* Date.now() / 1000 is t.s + t.ms / 1000 with t.ms < 1000, and it is below
\* the whole number on the right exactly when t.s is
isValid(g, t) == t.s < g.startTimestamp + g.durationDays * SecondsPerDay

\* instance.createEIP712 (fhevm.ts:250): the typed data the signer is shown
createEIP712(publicKey, contractAddresses, startTimestamp, days) ==
    [publicKey |-> publicKey, contractAddresses |-> contractAddresses,
     startTimestamp |-> startTimestamp, durationDays |-> days]

\* fhevm.ts:256: the object new() returns; signature is what the signer
\* signed and who signed it
NewSignature(publicKey, contractAddresses, startTimestamp, days, user, typed) ==
    [publicKey |-> publicKey, contractAddresses |-> contractAddresses,
     startTimestamp |-> startTimestamp, durationDays |-> days,
     userAddress |-> user, signature |-> [by |-> user, over |-> typed]]

\* a catch that rethrows
NewCatch_m(failure) == "threw"

\* fhevm.ts:257-259: catch { return null; }
NewCatch(failure) == "null"

\* pairs built for another contract than the one the signature names
Pairs_m(hs, addr) ==
    {[handle |-> h, contractAddress |-> "0x332e"] : h \in hs \ {ZeroHandle}}

\* part_003 line 125, rank/page.tsx:105-107: the handles (rank: those that
\* are not the zero handle) paired with the contract address
Pairs(hs, addr) ==
    {[handle |-> h, contractAddress |-> addr] : h \in hs \ {ZeroHandle}}

\* part_003 lines 124-129, rank/page.tsx:114: the arguments of userDecrypt
UserDecryptRequest(pairs, sig) ==
    [pairs |-> pairs, publicKey |-> sig.publicKey, signature |-> sig.signature,
     contractAddresses |-> sig.contractAddresses, userAddress |-> sig.userAddress,
     startTimestamp |-> sig.startTimestamp, durationDays |-> sig.durationDays]

\* the callback returns (finally: setBusy(false) / setDecrypting(false));
\* its locals are gone
Return ==
    /\ dpc' = "idle"
    /\ rows' = {}
    /\ keypair' = NoKey
    /\ userAddress' = NoUser
    /\ eip712' = <<>>

\* fhevm.ts:257-259, then part_003 line 123 / rank/page.tsx:102 and the
\* caller's catch: new() fails, no signature is created, nothing is sent
NewFails(failure) ==
    /\ newReturned' = NewCatch(failure)
    /\ Return
    /\ UNCHANGED <<issued, request>>

\* part_003 lines 113-120, rank/page.tsx:93-99
DecryptStart(hs) ==
    /\ dpc = "idle"
    /\ provider # NoProvider
    /\ ContractAt(chainId) # NoContract
    /\ instance # NoInstance
    /\ hs # {}
    /\ dpc' = "getSigner"
    /\ rows' = hs
    /\ newReturned' = "none"
    /\ request' = <<>>
    /\ UNCHANGED <<now, keypair, userAddress, eip712, issued, valid>>
    /\ UNCHANGED <<runtime, resolving, ledger, liking>>

\* part_003 lines 120-122, rank/page.tsx:99-101: bp.getSigner() is
\* answered; generateKeypair; new() runs up to signer.getAddress()
GetSignerDone ==
    /\ dpc = "getSigner"
    /\ \E out \in {"reject"} \cup Keys :
          IF out = "reject"
          THEN /\ Return
               /\ UNCHANGED newReturned
          ELSE /\ dpc' = "getAddress"
               /\ keypair' = out
               /\ UNCHANGED <<rows, userAddress, eip712, newReturned>>
    /\ UNCHANGED <<now, issued, request, valid>>
    /\ UNCHANGED <<runtime, resolving, ledger, liking>>

\* fhevm.ts:247-251: getAddress is answered; the start timestamp is taken,
\* the typed data built, and the signer asked to sign it
GetAddressDone ==
    /\ dpc = "getAddress"
    /\ \E out \in {"reject", "eip712Throws"} \cup Users :
          IF out \notin Users
          THEN NewFails(out)
          ELSE /\ dpc' = "sign"
               /\ userAddress' = out
               /\ eip712' = <<createEIP712(keypair, {ContractAt(chainId)},
                                           FloorSeconds(now), durationDays)>>
               /\ UNCHANGED <<rows, keypair, newReturned, issued, request>>
    /\ UNCHANGED <<now, valid>>
    /\ UNCHANGED <<runtime, resolving, ledger, liking>>

\* fhevm.ts:251-256, then part_003 lines 123-129 / rank/page.tsx:102-114:
\* signTypedData is answered; with a signature the caller sends userDecrypt
\* (rank: unless no row has a handle)
SignDone ==
    /\ dpc = "sign"
    /\ \E out \in {"reject", "signed"} :
          IF out = "reject"
          THEN /\ NewFails(out)
               /\ UNCHANGED valid
          ELSE LET typed == eip712[1]
                   sig == NewSignature(typed.publicKey, typed.contractAddresses,
                                       typed.startTimestamp, typed.durationDays,
                                       userAddress, typed)
                   pairs == Pairs(rows, ContractAt(chainId))
               IN  /\ newReturned' = "grant"
                   /\ issued' = <<sig>>
                   /\ valid' = <<>>
                   /\ IF pairs = {}
                      THEN /\ Return
                           /\ UNCHANGED request
                      ELSE /\ dpc' = "userDecrypt"
                           /\ request' = <<UserDecryptRequest(pairs, sig)>>
                           /\ UNCHANGED <<rows, keypair, userAddress, eip712>>
    /\ UNCHANGED now
    /\ UNCHANGED <<runtime, resolving, ledger, liking>>

\* part_003 lines 130-133, rank/page.tsx:116-128: userDecrypt is answered
UserDecryptDone ==
    /\ dpc = "userDecrypt"
    /\ Return
    /\ UNCHANGED <<now, newReturned, issued, request, valid>>
    /\ UNCHANGED <<runtime, resolving, ledger, liking>>

\* time passes
Tick(t) ==
    /\ Later(now, t)
    /\ now' = t
    /\ valid' = <<>>
    /\ UNCHANGED <<dpc, rows, keypair, userAddress, eip712, newReturned, issued, request>>
    /\ UNCHANGED <<runtime, resolving, ledger, liking>>

\* fhevm.ts:235-237: somebody asks the signature whether it is valid
IsValidCall ==
    /\ issued # <<>>
    /\ valid' = <<isValid(issued[1], now)>>
    /\ UNCHANGED <<now, dpc, rows, keypair, userAddress, eip712, newReturned, issued, request>>
    /\ UNCHANGED <<runtime, resolving, ledger, liking>>

Decrypt == \E hs \in SUBSET Handles : DecryptStart(hs)

Clock == \E t \in Instants : Tick(t)

NextGrant ==
    \/ Decrypt
    \/ GetSignerDone
    \/ GetAddressDone
    \/ SignDone
    \/ UserDecryptDone
    \/ Clock
    \/ IsValidCall

\* the hook is ready with the mock session of provider A on chain 31337
InitGrant ==
    /\ enabled = TRUE
    /\ provider = "A"
    /\ chainId = HardhatChain
    /\ instance = "mock"
    /\ status = "ready"
    /\ error = NoError
    /\ initializingRef = FALSE
    /\ relayerSDK = "absent"
    /\ injected = FALSE
    /\ initOk = FALSE
    /\ calls = <<>>
    /\ orphans = 0
    /\ rerequested = FALSE
    /\ lastSettled = [owner |-> "hook", aborted |-> FALSE, res |-> "mock", err |-> "none"]
    /\ RestInit

SpecGrant == InitGrant /\ [][NextGrant]_vars

\* ------------------------------------------------------- GhostGallery
\* contracts/GhostGallery.sol. A transaction is one action: a revert leaves
\* the contract as it was. The plain metadata of an artwork (title, hashes,
\* tags, timestamp) is stored by uploadArtwork and never read by the
\* contract; the model keeps the artist, the categories and the counter.

Accounts == {"alice", "bob"}
\* address(this)
This == "GhostGallery"
CategoryNames == {"a", "b", "c"}
\* the categories arguments of uploadArtwork
CategoryLists == {<<>>, <<"a", "b">>}
\* the counter of an artwork's likes, next to those of its categories
LikesKey == "likes"

\* a euint32 is kept as two 16-bit halves
Limb == 2 ^ 16

\* FHE.asEuint32(0)
Enc0 == [hi |-> 0, lo |-> 0]

\* the euint32 that encrypts n
EncOf(n) == [hi |-> n \div Limb, lo |-> n % Limb]

\* FHE.add(x, 1): addition modulo 2^32
FheAdd1(x) ==
    IF x.lo + 1 < Limb
    THEN [x EXCEPT !.lo = x.lo + 1]
    ELSE [hi |-> (x.hi + 1) % Limb, lo |-> 0]

\* a Solidity mapping read and write
Get(f, k, default) == IF k \in DOMAIN f THEN f[k] ELSE default

Put(f, k, v) == [x \in DOMAIN f \cup {k} |-> IF x = k THEN v ELSE f[x]]

\* the value a mapping read gives for an id never written
ZeroArtwork == [artist |-> ZeroAddress, categories |-> <<>>, likesEnc |-> Enc0]

\* GhostGallery.sol:87, 103, 149: Artwork storage a = _artworks[artworkId]
ArtworkAt(all, artworkId) == Get(all, artworkId, ZeroArtwork)

\* a lookup that takes every id for a created artwork
Exists_m(a) == TRUE

\* GhostGallery.sol:88, 104, 150: a.artist != address(0)
Exists(a) == a.artist # ZeroAddress

\* a category check that accepts every category
BelongsTo_m(categories, category) == TRUE

\* GhostGallery.sol:107-113
BelongsTo(categories, category) ==
    \E i \in DOMAIN categories : categories[i] = category

\* GhostGallery.sol:94-96, 126-128: FHE.allowThis, FHE.allow(artist) and
\* FHE.allowTransient(msg.sender) on the new handle
Allowed(artist, sender) == [persistent |-> {This, artist}, transient |-> {sender}]

\* a transaction whose grants to the caller outlast it
AfterTx_m(grants) == grants.persistent \cup grants.transient

\* the transaction ends: transient grants last no longer
AfterTx(grants) == grants.persistent

\* GhostGallery.sol:170-173; <<>> is the zero handle of a key never written
getVotes(id, category) == Get(votes, <<id, category>>, <<>>)

\* a category counter that starts from the artwork's likes
InitialVotes_m(a) == a.likesEnc

\* GhostGallery.sol:119: FHE.asEuint32(0)
InitialVotes(a) == Enc0

\* an increment that starts from the stored handle without looking at the flag
VoteNext_m(current, initialized, a) ==
    IF current = <<>> THEN <<InitialVotes(a)>> ELSE <<FheAdd1(current[1])>>

\* GhostGallery.sol:117-122
VoteNext(current, initialized, a) ==
    IF ~initialized THEN <<FheAdd1(InitialVotes(a))>> ELSE <<FheAdd1(current[1])>>

RECURSIVE SumOver(_, _)
SumOver(f, ks) ==
    IF ks = {} THEN 0
    ELSE LET k == CHOOSE x \in ks : TRUE
         IN  f[k] + SumOver(f, ks \ {k})

\* the likeArtwork / voteArtwork transactions that have succeeded
TxCount == SumOver(done, DOMAIN done)

\* the storage the increments read and write
Storage == [artworks |-> artworks, votes |-> votes,
            votesInitialized |-> votesInitialized, acl |-> acl]

\* a require fails: the transaction reverts, the storage is as it was
Revert(L, reason) == [reason |-> reason, storage |-> L]

\* an artwork id that is allocated twice
NextId_m(n) == n

\* GhostGallery.sol:54: nextArtworkId++
NextId(n) == n + 1

\* GhostGallery.sol:47-82
uploadArtwork(sender, categories) ==
    /\ Len(artworkIds) < MaxArtworks
    /\ LET artworkId == nextArtworkId
       IN  /\ nextArtworkId' = NextId(nextArtworkId)
           /\ artworks' = Put(artworks, artworkId,
                              [artist |-> sender, categories |-> categories,
                               likesEnc |-> Enc0])
           /\ acl' = Put(acl, <<artworkId, LikesKey>>,
                         AfterTx([persistent |-> {This, sender}, transient |-> {}]))
           /\ artworkIds' = Append(artworkIds, artworkId)
    /\ lastTx' = "ok"
    /\ msgSender' = sender
    /\ UNCHANGED <<votes, votesInitialized, done>>
    /\ UNCHANGED <<runtime, resolving, decrypting, liking>>

\* GhostGallery.sol:86-99, as a function of the storage L
likeArtworkTx(L, sender, artworkId) ==
    LET a == ArtworkAt(L.artworks, artworkId)
        key == <<artworkId, LikesKey>>
    IN  IF ~Exists(a)
        THEN Revert(L, "Artwork not found")
        ELSE [reason |-> "ok",
              storage |-> [L EXCEPT
                  !.artworks = Put(@, artworkId,
                                   [a EXCEPT !.likesEnc = FheAdd1(a.likesEnc)]),
                  !.acl = Put(@, key, AfterTx(Allowed(a.artist, sender)))]]

\* GhostGallery.sol:102-131, as a function of the storage L
voteArtworkTx(L, sender, artworkId, category) ==
    LET a == ArtworkAt(L.artworks, artworkId)
        key == <<artworkId, category>>
    IN  IF ~Exists(a)
        THEN Revert(L, "Artwork not found")
        ELSE IF ~BelongsTo(a.categories, category)
        THEN Revert(L, "Artwork does not belong to this category")
        ELSE [reason |-> "ok",
              storage |-> [L EXCEPT
                  !.votesInitialized = @ \cup {key},
                  !.votes = Put(@, key, VoteNext(Get(L.votes, key, <<>>),
                                                 key \in L.votesInitialized, a)),
                  !.acl = Put(@, key, AfterTx(Allowed(a.artist, sender)))]]

\* the transaction is mined: its storage writes and its outcome
Mined(r, sender, key) ==
    /\ artworks' = r.storage.artworks
    /\ votes' = r.storage.votes
    /\ votesInitialized' = r.storage.votesInitialized
    /\ acl' = r.storage.acl
    /\ done' = IF r.reason = "ok" THEN Put(done, key, Get(done, key, 0) + 1) ELSE done
    /\ lastTx' = r.reason
    /\ msgSender' = sender
    /\ UNCHANGED <<nextArtworkId, artworkIds>>
    /\ UNCHANGED <<runtime, resolving, decrypting, liking>>

\* GhostGallery.sol:86-99
likeArtwork(sender, artworkId) ==
    /\ TxCount < MaxTx
    /\ Mined(likeArtworkTx(Storage, sender, artworkId), sender, <<artworkId, LikesKey>>)

\* GhostGallery.sol:102-131
voteArtwork(sender, artworkId, category) ==
    /\ TxCount < MaxTx
    /\ Mined(voteArtworkTx(Storage, sender, artworkId, category), sender,
             <<artworkId, category>>)

Upload == \E sender \in Accounts, categories \in CategoryLists :
             uploadArtwork(sender, categories)

Like == \E sender \in Accounts, artworkId \in 0..(MaxArtworks + 1) :
           likeArtwork(sender, artworkId)

Vote == \E sender \in Accounts, artworkId \in 0..(MaxArtworks + 1),
           category \in CategoryNames :
           voteArtwork(sender, artworkId, category)

NextLedger == Upload \/ Like \/ Vote

SpecLedger == Init /\ [][NextLedger]_vars

\* the largest euint32, 2^32 - 1
EncMax == [hi |-> Limb - 1, lo |-> Limb - 1]

\* the contract after 2^32 - 1 likes of artwork 1 and as many votes for its
\* category a; done counts the calls from here on
LedgerFull ==
    /\ nextArtworkId = 2
    /\ artworkIds = <<1>>
    /\ artworks = Put(<<>>, 1, [artist |-> "alice", categories |-> <<"a", "b">>,
                                likesEnc |-> EncMax])
    /\ votes = Put(<<>>, <<1, "a">>, <<EncMax>>)
    /\ votesInitialized = {<<1, "a">>}
    /\ acl = Put(Put(<<>>, <<1, LikesKey>>, {This, "alice"}), <<1, "a">>, {This, "alice"})
    /\ done = <<>>
    /\ lastTx = "ok"
    /\ msgSender = "bob"

InitFull ==
    /\ enabled = TRUE
    /\ provider = NoProvider
    /\ chainId = NoChain
    /\ instance = NoInstance
    /\ status = "idle"
    /\ error = NoError
    /\ initializingRef = FALSE
    /\ relayerSDK = "absent"
    /\ injected = FALSE
    /\ initOk = FALSE
    /\ calls = <<>>
    /\ orphans = 0
    /\ rerequested = FALSE
    /\ lastSettled = NoOutcome
    /\ ResolveIdle
    /\ DecryptIdle
    /\ LedgerFull
    /\ LikeIdle

SpecFull == InitFull /\ [][NextLedger]_vars

\* ------------------------------------------------------ useGallery.like
\*
\* like(id) of src/unnamed/part_003 (lines 71-91) on a hook whose provider,
\* contract address and instance are there. Each call is a sequence of
\* awaits; several calls can be in flight, since nothing in like() waits for
\* an earlier one.

\* the ids of the artworks on the page
LikeIds == {1, 2}

\* part_003 line 72: the guard of like(id)
LikeSkips(id) ==
    \/ provider = NoProvider
    \/ ContractAt(chainId) = NoContract
    \/ instance = NoInstance
    \/ id \in likedItems

\* part_003 lines 86-90: catch (setMessage) and finally (setBusy(false))
LikeReturn(a) ==
    /\ likeCalls' = RemoveAt(likeCalls, a)
    /\ busy' = FALSE

\* part_003 lines 71-76: like(id) passes the guard, sets busy and awaits
\* bp.getSigner()
LikeStart(id) ==
    /\ Len(likeCalls) < MaxInFlight
    /\ SumOver(sentLikes, DOMAIN sentLikes) + Len(likeCalls) < MaxLikes
    /\ ~LikeSkips(id)
    /\ busy' = TRUE
    /\ likeCalls' = Append(likeCalls, [id |-> id, pc |-> "getSigner"])
    /\ UNCHANGED <<likedItems, sentLikes>>
    /\ UNCHANGED <<runtime, resolving, decrypting, ledger>>

\* part_003 lines 76-78: getSigner is answered; contract.likeArtwork(id) is
\* called
LikeSignerDone(a) ==
    /\ likeCalls[a].pc = "getSigner"
    /\ \E out \in {"throw", "signer"} :
          IF out = "throw"
          THEN LikeReturn(a)
          ELSE /\ likeCalls' = [likeCalls EXCEPT ![a].pc = "likeArtwork"]
               /\ UNCHANGED busy
    /\ UNCHANGED <<likedItems, sentLikes>>
    /\ UNCHANGED <<runtime, resolving, decrypting, ledger>>

\* part_003 lines 78-79: the wallet rejects, or the transaction is sent and
\* tx.wait() awaited
LikeSendDone(a) ==
    /\ likeCalls[a].pc = "likeArtwork"
    /\ \E out \in {"throw", "sent"} :
          IF out = "throw"
          THEN /\ LikeReturn(a)
               /\ UNCHANGED sentLikes
          ELSE /\ sentLikes' = Put(sentLikes, likeCalls[a].id,
                                   Get(sentLikes, likeCalls[a].id, 0) + 1)
               /\ likeCalls' = [likeCalls EXCEPT ![a].pc = "wait"]
               /\ UNCHANGED busy
    /\ UNCHANGED likedItems
    /\ UNCHANGED <<runtime, resolving, decrypting, ledger>>

\* part_003 lines 79-90: the transaction is mined (the id is marked as liked,
\* the artworks are read again) or tx.wait() throws
LikeWaitDone(a) ==
    /\ likeCalls[a].pc = "wait"
    /\ \E out \in {"throw", "mined"} :
          /\ likedItems' = IF out = "mined"
                           THEN likedItems \cup {likeCalls[a].id}
                           ELSE likedItems
          /\ LikeReturn(a)
    /\ UNCHANGED sentLikes
    /\ UNCHANGED <<runtime, resolving, decrypting, ledger>>

NextLike ==
    \/ \E id \in LikeIds : LikeStart(id)
    \/ \E a \in DOMAIN likeCalls : LikeSignerDone(a) \/ LikeSendDone(a) \/ LikeWaitDone(a)

SpecLike == InitGrant /\ [][NextLike]_vars

TypeOK ==
    /\ enabled \in BOOLEAN
    /\ provider \in {NoProvider} \cup Providers
    /\ chainId \in ChainProps
    /\ status \in {"idle", "loading", "ready", "error"}
    /\ instance \in {NoInstance, "mock", "sdk"}
    /\ error \in {NoError} \cup ErrorKinds
    /\ relayerSDK \in WindowValues

\* ================================================================ claims

\* the a-th call in flight is a call of the hook and returns or throws in
\* this step
Settles(a) == calls[a].owner = "hook" /\ calls' = RemoveAt(calls, a)

Exposed == <<status, instance, error>>

\* C1. Last caller wins: the result of a call made for provider A that
\* arrives while the hook is enabled for provider B (the caller switched
\* while the call was loading) is discarded: status, instance and error stay
\* as they are.
C1_LastCallerWins ==
    [][\A a \in InFlight :
          (Settles(a) /\ enabled /\ provider \in Providers /\ calls[a].prov # provider)
              => UNCHANGED Exposed]_vars

\* C2. At most one createFhevmInstance call of the hook is in flight.
C2_AtMostOneInFlight == Cardinality(HookInFlight) <= 1

C4_RefreshInvalidates ==
    /\ [](status = "idle" => instance = NoInstance /\ error = NoError)
    /\ [][\A a \in InFlight :
            (Settles(a) /\ a <= orphans) => UNCHANGED Exposed]_vars

\* C5. While status is loading, a run of the effect, enabled, for the provider
\* of the call in flight starts no call and leaves status, instance and error
\* as they are.
C5_SameTransportNoOp ==
    [][(/\ status = "loading"
        /\ <<enabled, provider, chainId>>' # <<enabled, provider, chainId>>
        /\ enabled'
        /\ \E a \in HookInFlight : calls[a].prov = provider')
         => /\ UNCHANGED Exposed
            /\ Len(calls') = Len(calls)]_vars

\* the effect has run again for the provider of the call that is loading
C5_Witness ==
    /\ status = "loading"
    /\ enabled
    /\ rerequested
    /\ \E a \in HookInFlight : calls[a].prov = provider

\* C6. When the provider or the chain id changes and the effect begins a new
\* activation, the session of the previous provider / chain is no longer
\* exposed: instance is undefined while status is loading.
C6_SessionInvalidatedOnChange ==
    [][((provider' # provider \/ chainId' # chainId) /\ status' = "loading")
          => instance' = NoInstance]_vars

\* C7. A createFhevmInstance call whose signal was aborted before it returned
\* never returns a session.
C7_AbortedNeverReturnsSession ==
    lastSettled.aborted => lastSettled.res = "rejected"

C10_InitOnce ==
    [][(initOk /\ Len(calls') = Len(calls))
          => \A a \in InFlight : ~(calls[a].pc # "init" /\ calls'[a].pc = "init")]_vars

\* the calls that await loader.load()
LoadingCalls == {a \in InFlight : calls[a].pc = "load"}

\* C11. The engine script is fetched at most once per process and not at all
\* when the engine is already in window.relayerSDK: no call appends a script
\* element for SDK_CDN_URL once one has been appended, or while the slot holds
\* the engine.
C11_EngineFetchedOnce ==
    [][\A a \in InFlight :
          (/\ Len(calls') = Len(calls)
           /\ calls[a].pc # "load"
           /\ calls'[a].pc = "load"
           /\ calls'[a].script)
              => (~injected /\ relayerSDK # "sdk")]_vars

\* C12. The load step fails when it leaves window.relayerSDK without a usable
\* engine (the key was there with an unusable value, or the script loaded
\* without installing one): the call that awaited load() is rejected with the
\* load failure and goes no further.
C12_MalformedEngineFailsLoad ==
    [][(/\ Cardinality(LoadingCalls') < Cardinality(LoadingCalls)
        /\ relayerSDK' # "sdk")
          => /\ Len(calls') < Len(calls)
             /\ lastSettled'.res = "rejected"
             /\ lastSettled'.err = "load"]_vars

\* the awaits of the local-node path (fhevm.ts:82-93)
ProbePcs == {"version", "metadata", "mockCreate"}

ProbingCalls == {a \in InFlight : calls[a].pc \in ProbePcs}

C15_MockOnlyAfterProbes ==
    /\ [](\A a \in InFlight :
            /\ calls[a].pc \in ProbePcs => calls[a].isMock
            /\ calls[a].pc = "metadata" => calls[a].reply = "hardhat"
            /\ calls[a].pc = "mockCreate" => calls[a].reply = "complete")
    /\ [][\A a \in InFlight :
            (Len(calls') = Len(calls) /\ calls'[a].pc \in ProbePcs)
                => /\ calls[a].pc \in {"resolve"} \cup ProbePcs
                   /\ calls'[a].pc = "mockCreate" => calls[a].pc \in {"metadata", "mockCreate"}
                   /\ calls'[a].pc = "metadata" => calls[a].pc \in {"version", "metadata"}]_vars
    /\ [][(Len(calls') < Len(calls) /\ lastSettled'.res = "mock")
            => \E a \in InFlight :
                  /\ calls[a].pc = "mockCreate"
                  /\ calls[a].isMock
                  /\ calls[a].reply = "complete"
                  /\ calls' = RemoveAt(calls, a)]_vars

\* a call has returned the mock session
C15_Witness == lastSettled.res = "mock"

\* C13. resolve() classifies chain 31337 as emulated also without an
\* override map, and for every chain id and override map it answers emulated
\* exactly when the chain id is a key of the override map or 31337, remote
\* otherwise, with the chain id it was given.
C13_ResolveClassifies ==
    resolveResult # <<>> =>
        LET r == resolveResult[1]
            keys == IF resolveArgs.mockChains = <<>> THEN {} ELSE resolveArgs.mockChains[1]
        IN  /\ r.chainId = resolveArgs.chain
            /\ r.isMock = (resolveArgs.chain = HardhatChain \/ resolveArgs.chain \in keys)
            /\ (resolveArgs.chain = HardhatChain /\ resolveArgs.mockChains = <<>>) => r.isMock

\* resolve() has answered emulated for chain 31337 with no override map
C13_Witness ==
    /\ resolveResult # <<>>
    /\ resolveArgs = [chain |-> HardhatChain, mockChains |-> <<>>]
    /\ resolveResult[1].isMock

\* C16. A decryption signature is valid exactly while now, in seconds, is
\* below startTimestamp + durationDays * 86400: one created by new() has a
\* 365-day window that starts at the second new() read the clock, and
\* isValid() answers true at that instant and at every instant before
\* start + 365 days, false at every instant from start + 365 days on.
C16_GrantValidity ==
    /\ [](valid # <<>> =>
            valid[1] = (now.s < issued[1].startTimestamp + 365 * 86400))
    /\ [](issued # <<>> =>
            /\ issued[1].durationDays = 365
            /\ issued[1].startTimestamp <= now.s)
    /\ [][(dpc = "getAddress" /\ dpc' = "sign")
            => /\ eip712'[1].startTimestamp = now.s
               /\ eip712'[1].durationDays = 365]_vars

\* isValid() has answered false at the first instant after the window
C16_Witness ==
    /\ valid = <<FALSE>>
    /\ now = [s |-> issued[1].startTimestamp + 365 * 86400, ms |-> 0]

\* C17. While a signature issued for the same signer, contract set and
\* public key is within its validity window, obtaining a signature does not
\* ask the signer to sign again.
C17_CachedGrantReused ==
    [][(dpc = "getAddress" /\ dpc' = "sign")
          => ~(/\ issued # <<>>
               /\ isValid(issued[1], now)
               /\ issued[1].userAddress = userAddress'
               /\ issued[1].contractAddresses = eip712'[1].contractAddresses
               /\ issued[1].publicKey = eip712'[1].publicKey)]_vars

\* C18. When the signer fails at any step of new() (getAddress, building
\* the typed data, signTypedData), new() returns null, never throws, creates
\* no signature, and the caller sends no userDecrypt request.
C18_SignerFailureYieldsNull ==
    /\ [](newReturned # "threw")
    /\ [](newReturned = "null" => request = <<>> /\ dpc = "idle")
    /\ [][(dpc \in {"getAddress", "sign"} /\ dpc' = "idle" /\ newReturned' # "grant")
            => /\ newReturned' = "null"
               /\ issued' = issued
               /\ request' = <<>>]_vars

\* new() has returned null and the decryption has ended without a request
C18_Witness ==
    /\ newReturned = "null"
    /\ dpc = "idle"
    /\ request = <<>>

\* C19. Every userDecrypt request pairs its handles only with contract
\* addresses of the signature's contractAddresses, and carries the public
\* key, contract set, start timestamp and duration of the typed data the
\* signer signed, with the signer's address.
C19_RequestWithinGrant ==
    request # <<>> =>
        LET r == request[1]
        IN  /\ r.pairs # {}
            /\ \A p \in r.pairs : p.contractAddress \in r.contractAddresses
            /\ r.signature.over =
                   [publicKey |-> r.publicKey, contractAddresses |-> r.contractAddresses,
                    startTimestamp |-> r.startTimestamp, durationDays |-> r.durationDays]
            /\ r.signature.by = r.userAddress

\* a userDecrypt request has been sent and awaits its answer
C19_Witness == request # <<>> /\ dpc = "userDecrypt"

\* C20. The overall counter of an artwork encrypts the number of likeArtwork
\* calls on it that succeeded, its counter for a category the number of
\* voteArtwork calls for that category that succeeded, and the counter of a
\* category never voted on is the zero handle with its initialized flag
\* unset, which no initialized counter is, not even one that encrypts 0.
C20_CountersCountCalls ==
    \A id \in DOMAIN artworks :
        /\ artworks[id].likesEnc = EncOf(Get(done, <<id, LikesKey>>, 0))
        /\ \A c \in CategoryNames :
              LET n == Get(done, <<id, c>>, 0)
              IN  IF n = 0
                  THEN getVotes(id, c) = <<>> /\ <<id, c>> \notin votesInitialized
                  ELSE /\ getVotes(id, c) = <<EncOf(n)>>
                       /\ <<id, c>> \in votesInitialized
                       /\ getVotes(id, c) # <<>>

\* three likes and two votes for "a" on an artwork with categories a and b
C20_Witness ==
    \E id \in DOMAIN artworks :
        /\ artworks[id].categories = <<"a", "b">>
        /\ artworks[id].likesEnc = EncOf(3)
        /\ getVotes(id, "a") = <<EncOf(2)>>
        /\ getVotes(id, "b") = <<>>
        /\ <<id, "b">> \notin votesInitialized

\* the ledger state a transaction can write
LedgerState == <<nextArtworkId, artworkIds, artworks, votes, votesInitialized, acl, done>>

\* the ids handed out by uploadArtwork
Created == {artworkIds[i] : i \in DOMAIN artworkIds}

\* the keys of the category counters that some transaction has written, their
\* flags, grants and successful calls included
CategoryKeys ==
    DOMAIN votes \cup votesInitialized
        \cup {k \in DOMAIN acl \cup DOMAIN done : k[2] # LikesKey}

\* the artwork id declared the category when it was uploaded
Declares(id, category) ==
    /\ id \in DOMAIN artworks
    /\ \E i \in DOMAIN artworks[id].categories : artworks[id].categories[i] = category

\* C21. voteArtwork(E, c) for a category c that E did not declare when it
\* was uploaded (E may have declared none) fails: the transaction ends with
\* "Artwork does not belong to this category" and leaves every counter, every
\* initialized flag, every access grant and the list of ids as they were; no
\* counter, flag, grant or counted vote ever exists for an undeclared category.
C21_UndeclaredCategoryRejected ==
    /\ [](\A k \in CategoryKeys : Declares(k[1], k[2]))
    /\ [][lastTx' = "Artwork does not belong to this category"
             => UNCHANGED LedgerState]_vars

\* a vote has just been rejected although artworks exist: none of them
\* declared a category
C21_Witness ==
    /\ lastTx = "Artwork does not belong to this category"
    /\ artworkIds # <<>>
    /\ \A id \in DOMAIN artworks : artworks[id].categories = <<>>

\* C22. likeArtwork and voteArtwork on an id that uploadArtwork never handed
\* out (0 and the ids from nextArtworkId on included) fail with "Artwork not
\* found" and change no ledger state; no artwork record, counter, initialized
\* flag, grant or counted call ever exists for such an id.
C22_UnknownArtworkRejected ==
    /\ [](/\ DOMAIN artworks = Created
          /\ \A k \in DOMAIN votes \cup votesInitialized \cup DOMAIN acl \cup DOMAIN done :
                k[1] \in Created)
    /\ [][lastTx' = "Artwork not found" => UNCHANGED LedgerState]_vars

\* a like or a vote has just been rejected for its id while artworks exist
C22_Witness ==
    /\ lastTx = "Artwork not found"
    /\ artworkIds # <<>>
    /\ TxCount > 0

\* x <= y for the plaintexts of two euint32
Leq(x, y) == x.hi < y.hi \/ (x.hi = y.hi /\ x.lo <= y.lo)

\* C23. The plaintext of every counter is monotonically non-decreasing over
\* time: no transaction lowers or resets the likes counter of an artwork or a
\* category counter, an increment of a counter that holds the largest 32-bit
\* value included.
C23_CountersNeverDecrease ==
    [][/\ \A id \in DOMAIN artworks :
             /\ id \in DOMAIN artworks'
             /\ Leq(artworks[id].likesEnc, artworks'[id].likesEnc)
       /\ \A k \in DOMAIN votes :
             /\ k \in DOMAIN votes'
             /\ Leq(votes[k][1], votes'[k][1])]_vars

\* the counters that hold a handle: the likes of every artwork and the
\* category counters voted for
Counters == {<<id, LikesKey>> : id \in DOMAIN artworks} \cup DOMAIN votes

\* C24. After every successful uploadArtwork, likeArtwork and voteArtwork the
\* current handle of the counter it touched is readable, once the transaction
\* has ended, by exactly the contract and the artist of the artwork: a caller
\* who is not the artist holds a grant only within the transaction.
C24_GrantsContractAndArtist ==
    /\ DOMAIN acl = Counters
    /\ \A k \in DOMAIN acl : acl[k] = {This, artworks[k[1]].artist}

\* an account that is not the artist of any artwork has just incremented a
\* counter
C24_Witness ==
    /\ lastTx = "ok"
    /\ TxCount > 0
    /\ msgSender \in Accounts
    /\ \A id \in DOMAIN artworks : artworks[id].artist # msgSender
    /\ \E k \in DOMAIN done : k[2] # LikesKey

\* the increment transactions: who sends which call
IncrementTxs ==
    [fn : {"likeArtwork"}, sender : Accounts, artworkId : 0..(MaxArtworks + 1),
     category : {LikesKey}]
        \cup [fn : {"voteArtwork"}, sender : Accounts, artworkId : 0..(MaxArtworks + 1),
              category : CategoryNames]

\* the transaction t applied to the storage L
Run(L, t) ==
    IF t.fn = "likeArtwork"
    THEN likeArtworkTx(L, t.sender, t.artworkId)
    ELSE voteArtworkTx(L, t.sender, t.artworkId, t.category)

\* C25. Any two increment transactions (likeArtwork or voteArtwork, on any
\* artworks and categories, from any callers) commute: applied to the same
\* ledger state in either order, each of them succeeds or fails as in the
\* other order, and the counters, the initialized flags and the grants that
\* outlast the transactions end up the same.
C25_IncrementsCommute ==
    [](\A t1 \in IncrementTxs :
          LET first1 == Run(Storage, t1)
          IN  \A t2 \in IncrementTxs :
                 LET then2 == Run(first1.storage, t2)
                     first2 == Run(Storage, t2)
                     then1 == Run(first2.storage, t1)
                 IN  /\ then2.storage = then1.storage
                     /\ first1.reason = then1.reason
                     /\ first2.reason = then2.reason)

\* an artwork has been liked and voted for, its category counter started
C25_Witness ==
    \E id \in DOMAIN artworks, c \in CategoryNames :
        /\ Get(done, <<id, LikesKey>>, 0) > 0
        /\ Get(done, <<id, c>>, 0) > 0
        /\ <<id, c>> \in votesInitialized

\* GhostGallery.sol:165-167
getAllArtworks == artworkIds

\* C26. getAllArtworks returns exactly the ids handed out so far, each once
\* and in the order of creation 1, 2, 3, ...: no id is handed out twice, and
\* an artwork exists exactly when its id is in the list.
C26_IdsInCreationOrder ==
    /\ getAllArtworks = [i \in 1..(nextArtworkId - 1) |-> i]
    /\ \A id \in 0..(MaxArtworks + 1) :
          Exists(ArtworkAt(artworks, id))
              = (\E i \in DOMAIN getAllArtworks : getAllArtworks[i] = id)

\* every artwork the bound allows has been uploaded
C26_Witness == Len(getAllArtworks) = MaxArtworks /\ nextArtworkId = MaxArtworks + 1

\* the awaits of a call before it reaches the remote path
LocalPcs == {"resolve"} \cup ProbePcs

\* the a-th call in flight goes on from one await to another in this step
MovesTo(a, pc) ==
    /\ Len(calls') = Len(calls)
    /\ calls[a].pc # pc
    /\ calls'[a].pc = pc

Inputs == <<enabled, provider, chainId>>

\* C28. The hook starts an activation only when the caller changes enabled,
\* provider or chainId: it never starts one by itself, and refresh() starts
\* none, so that once refresh() has left the hook idle it stays idle until an
\* input changes.
C28_OnlyInputsActivate ==
    /\ [][Len(calls') > Len(calls) => Inputs' # Inputs]_vars
    /\ [][(status = "idle" /\ Inputs' = Inputs) => status' = "idle"]_vars

\* C29. The three outputs of the hook agree: status is ready exactly when
\* instance is defined and error is undefined, status is error exactly when
\* error is defined, and error is undefined while status is idle or loading.
C29_OutputsConsistent ==
    /\ (status = "ready") = (instance # NoInstance /\ error = NoError)
    /\ (status = "error") = (error # NoError)
    /\ status \in {"idle", "loading"} => error = NoError

\* C30. One useGallery hook sends at most one likeArtwork transaction per
\* artwork id, also when like(id) is called again before the first
\* transaction is confirmed and the id marked as liked.
C30_OneLikePerArtwork ==
    \A id \in DOMAIN sentLikes : sentLikes[id] <= 1

====
